---- MODULE Spec2Model ----
(***************************************************************************)
(* Model of src/main.py: the in-process replicated, content-addressed      *)
(* file store (class Node, class DistributedFileStorageSystem) driven by   *)
(* concurrent request threads.                                             *)
(*                                                                         *)
(* Granularity.  A thread takes one step per access to shared state        *)
(* (self.file_map, self.nodes, a Node's files, self.lock).  The entry of a *)
(* call is merged with its first read of shared state, and the last shared *)
(* access with the return.  Node objects live in a heap (objs) and are     *)
(* named by their index, because a Node that left self.nodes is still      *)
(* reachable from a running store_file, and two Nodes may carry the same   *)
(* node_id.                                                                *)
(***************************************************************************)
EXTENDS Integers, Sequences, FiniteSets, TLC

\* ---------------------------------------------------------------- bounds
NumThreads == 2
MaxNodes == 3
MaxCalls == 3

Threads == 1..NumThreads
NodeIds == {"node1", "node2", "node3"}
Filenames == {"test.txt"}
Payloads == {"", "Hello World"}

\* ------------------------------------------------------ program constants
num_replicas == 3

None == "None"
True == "True"
False == "False"

\* --------------------------------------------------------- pure functions
\* hashlib.sha256(data).hexdigest(), by its table on Payloads (leading digits)
hash_file(data) ==
    CASE data = "" -> "e3b0c442"
      [] data = "Hello World" -> "a591a6d4"

FileIds == {hash_file(d) : d \in Payloads}

\* a Python dict as a function whose domain is the set of keys
EmptyDict == [k \in {} |-> None]
DictSet(d, k, v) == [x \in (DOMAIN d) \cup {k} |-> IF x = k THEN v ELSE d[x]]
\* variant: a del that leaves the key in place
DictDel_Keep(d, k) == d
DictDel(d, k) == [x \in (DOMAIN d) \ {k} |-> d[x]]

\* Node.store_file / Node.get_file / Node.delete_file on a Node's files dict
Node_store_file(files, file_id, data) == DictSet(files, file_id, data)
Node_get_file(files, file_id) ==
    IF file_id \in DOMAIN files THEN files[file_id] ELSE None
Node_delete_file(files, file_id) ==
    IF file_id \in DOMAIN files THEN DictDel(files, file_id) ELSE files

\* Python truth value of `data` (bytes or None): None and b"" are false
Truthy(data) == data # None /\ data # ""

\* random.sample(population, k): the k-sequences of elements at pairwise
\* distinct positions; the empty set stands for ValueError (k > len)
Sample(population, k) ==
    { [i \in 1..k |-> population[s[i]]] :
        s \in { f \in [1..k -> 1..Len(population)] :
                  \A a, b \in 1..k : a # b => f[a] # f[b] } }

\* nodes     self.nodes: the registered Node objects, in order
\* objs      the Node objects ever made: node_id and files (file_id -> data)
\* file_map  self.file_map: file_id -> [filename, nodes (list of node ids)]
\* lock      self.lock: 0 when free, else the thread that holds it
\* pc        where each request thread is ("idle" between calls)
\* call      each thread's current or last call and its arguments
\* local     the locals of the call: selected_nodes, the list a loop
\*           iterates, the loop position
\* result    how each thread's last call ended
\* deleted   history: the ids whose delete_file returned True with no
\*           store_file of that content made since
\* ncalls    the calls made so far, add_node apart
VARIABLES nodes, objs, file_map, lock, pc, call, local, result, deleted, ncalls

vars == <<nodes, objs, file_map, lock, pc, call, local, result, deleted, ncalls>>

\* next((n for n in self.nodes if n.node_id == node_id), None): the object
\* of the first registered node with that id, 0 for None
Lookup(ns, node_id) ==
    LET hits == { i \in 1..Len(ns) : objs[ns[i]].node_id = node_id }
    IN  IF hits = {} THEN 0
        ELSE ns[CHOOSE i \in hits : \A j \in hits : i <= j]

NoCall == [op |-> "none", filename |-> None, data |-> None,
           file_id |-> None, node_id |-> None]
NoLocal == [selected |-> <<>>, recnodes |-> <<>>, i |-> 0]
NoResult == [kind |-> "none", value |-> None, log |-> None]

Return(v, msg) == [kind |-> "return", value |-> v, log |-> msg]
Raise(e) == [kind |-> "raise", value |-> e, log |-> None]

Init ==
    /\ nodes = <<>>
    /\ objs = <<>>
    /\ file_map = EmptyDict
    /\ lock = 0
    /\ pc = [t \in Threads |-> "idle"]
    /\ call = [t \in Threads |-> NoCall]
    /\ local = [t \in Threads |-> NoLocal]
    /\ result = [t \in Threads |-> NoResult]
    /\ deleted = {}
    /\ ncalls = 0

\* `with self.lock:` (threading.Lock): a thread gets past it only when no
\* thread holds the lock
\* variant: a lock that never makes a thread wait
LockFree_Always(l) == TRUE
LockFree(l) == l = 0

\* a request thread enters a call
Enter(t, c) ==
    /\ pc[t] = "idle"
    /\ call' = [call EXCEPT ![t] = c]

\* the call of thread t ends with outcome r
Finish(t, r) ==
    /\ pc' = [pc EXCEPT ![t] = "idle"]
    /\ result' = [result EXCEPT ![t] = r]
    /\ local' = [local EXCEPT ![t] = NoLocal]


\* ------------------------------------------------- add_node / remove_node
\* the threads inside add_node
AddingNode == { u \in Threads : pc[u] \in {"add_wait", "add_locked"} }

\* add_node(Node(node_id)), lines 36-37: the thread is about to take
\* self.lock
AddNodeCall(t, node_id) ==
    /\ Len(objs) + Cardinality(AddingNode) < MaxNodes
    /\ Enter(t, [NoCall EXCEPT !.op = "add_node", !.node_id = node_id])
    /\ pc' = [pc EXCEPT ![t] = "add_wait"]
    /\ result' = [result EXCEPT ![t] = NoResult]
    /\ UNCHANGED <<nodes, objs, file_map, lock, local, deleted, ncalls>>

\* line 37: self.lock is free, the thread takes it
AddNodeAcquire(t) ==
    /\ pc[t] = "add_wait"
    /\ LockFree(lock)
    /\ lock' = t
    /\ pc' = [pc EXCEPT ![t] = "add_locked"]
    /\ UNCHANGED <<nodes, objs, file_map, call, local, result, deleted, ncalls>>

\* lines 38-39: a fresh Node (empty files) is appended; the lock is released
AddNodeAppend(t) ==
    /\ pc[t] = "add_locked"
    /\ objs' = Append(objs, [node_id |-> call[t].node_id, files |-> EmptyDict])
    /\ nodes' = Append(nodes, Len(objs) + 1)
    /\ lock' = 0
    /\ Finish(t, Return(None, "added"))
    /\ UNCHANGED <<file_map, call, deleted, ncalls>>

\* remove_node(node_id), lines 41-42: the thread is about to take self.lock
RemoveNodeCall(t, node_id) ==
    /\ ncalls < MaxCalls
    /\ Enter(t, [NoCall EXCEPT !.op = "remove_node", !.node_id = node_id])
    /\ pc' = [pc EXCEPT ![t] = "remove_wait"]
    /\ result' = [result EXCEPT ![t] = NoResult]
    /\ ncalls' = ncalls + 1
    /\ UNCHANGED <<nodes, objs, file_map, lock, local, deleted>>

\* line 42: self.lock is free, the thread takes it
RemoveNodeAcquire(t) ==
    /\ pc[t] = "remove_wait"
    /\ LockFree(lock)
    /\ lock' = t
    /\ pc' = [pc EXCEPT ![t] = "remove_locked"]
    /\ UNCHANGED <<nodes, objs, file_map, call, local, result, deleted, ncalls>>

\* variant: a filter that drops only the first node of that id
WithoutNode_First(ns, node_id) ==
    LET hits == { i \in 1..Len(ns) : objs[ns[i]].node_id = node_id }
        first == CHOOSE i \in hits : \A j \in hits : i <= j
    IN  IF hits = {} THEN ns
        ELSE SubSeq(ns, 1, first - 1) \o SubSeq(ns, first + 1, Len(ns))

\* [node for node in self.nodes if node.node_id != node_id]
WithoutNode(ns, node_id) ==
    SelectSeq(ns, LAMBDA o : objs[o].node_id # node_id)

\* lines 43-44
RemoveNodeFilter(t) ==
    /\ pc[t] = "remove_locked"
    /\ nodes' = WithoutNode(nodes, call[t].node_id)
    /\ lock' = 0
    /\ Finish(t, Return(None, "removed"))
    /\ UNCHANGED <<objs, file_map, call, deleted, ncalls>>

\* ------------------------------------------------------------- store_file
\* `file_id in self.file_map` (lines 51, 68, 83)
\* variant: a presence test that never finds the id
InFileMap_Never(fm, file_id) == FALSE
InFileMap(fm, file_id) == file_id \in DOMAIN fm

\* lines 50-53: hash, then the presence check and the short-circuit return
StoreCall(t, filename, data) ==
    /\ ncalls < MaxCalls
    /\ Enter(t, [NoCall EXCEPT !.op = "store_file", !.filename = filename,
                               !.data = data, !.file_id = hash_file(data)])
    /\ ncalls' = ncalls + 1
    /\ IF InFileMap(file_map, hash_file(data))
       THEN Finish(t, Return(hash_file(data), "exists"))
       ELSE /\ pc' = [pc EXCEPT ![t] = "s_sample"]
            /\ result' = [result EXCEPT ![t] = NoResult]
            /\ UNCHANGED local
    /\ deleted' = deleted \ {hash_file(data)}
    /\ UNCHANGED <<nodes, objs, file_map, lock>>

\* line 55: random.sample(self.nodes, self.num_replicas); ValueError when
\* the population is smaller than the sample
StoreSample(t) ==
    /\ pc[t] = "s_sample"
    /\ IF Sample(nodes, num_replicas) = {}
       THEN Finish(t, Raise("ValueError"))
       ELSE \E sel \in Sample(nodes, num_replicas) :
              /\ local' = [local EXCEPT ![t].selected = sel, ![t].i = 1]
              /\ pc' = [pc EXCEPT ![t] = "s_write"]
              /\ UNCHANGED result
    /\ UNCHANGED <<nodes, objs, file_map, lock, call, deleted, ncalls>>

\* lines 56-57: one node.store_file(file_id, data) of the loop
StoreWrite(t) ==
    /\ pc[t] = "s_write"
    /\ local[t].i <= Len(local[t].selected)
    /\ LET o == local[t].selected[local[t].i]
       IN  objs' = [objs EXCEPT ![o].files =
                      Node_store_file(@, call[t].file_id, call[t].data)]
    /\ local' = [local EXCEPT ![t].i = @ + 1]
    /\ UNCHANGED <<nodes, file_map, lock, pc, call, result, deleted, ncalls>>

\* line 59: the loop is over, the thread takes self.lock
StoreAcquire(t) ==
    /\ pc[t] = "s_write"
    /\ local[t].i > Len(local[t].selected)
    /\ LockFree(lock)
    /\ lock' = t
    /\ pc' = [pc EXCEPT ![t] = "s_insert"]
    /\ UNCHANGED <<nodes, objs, file_map, call, local, result, deleted, ncalls>>

\* the record of lines 60-63
Record(filename, selected) ==
    [filename |-> filename,
     nodes |-> [i \in 1..Len(selected) |-> objs[selected[i]].node_id]]

\* lines 60-63: self.file_map[file_id] = {...}; the lock is released
StoreInsert(t) ==
    /\ pc[t] = "s_insert"
    /\ file_map' = DictSet(file_map, call[t].file_id,
                           Record(call[t].filename, local[t].selected))
    /\ lock' = 0
    /\ pc' = [pc EXCEPT ![t] = "s_log"]
    /\ UNCHANGED <<nodes, objs, call, local, result, deleted, ncalls>>

\* lines 64-65: the log line reads self.file_map[file_id]['nodes'] again
\* (KeyError when the record is gone), then the id is returned
StoreLog(t) ==
    /\ pc[t] = "s_log"
    /\ IF InFileMap(file_map, call[t].file_id)
       THEN Finish(t, Return(call[t].file_id, "stored"))
       ELSE Finish(t, Raise("KeyError"))
    /\ UNCHANGED <<nodes, objs, file_map, lock, call, deleted, ncalls>>

\* ---------------------------------------------------------- retrieve_file
\* lines 69-70 and 79-80: the two failure exits (an error log, then None)
NotFound == Return(None, "not found")
Unretrievable == Return(None, "not retrievable")

\* lines 68-70: the presence check
RetrieveCall(t, file_id) ==
    /\ ncalls < MaxCalls
    /\ Enter(t, [NoCall EXCEPT !.op = "retrieve_file", !.file_id = file_id])
    /\ ncalls' = ncalls + 1
    /\ IF InFileMap(file_map, file_id)
       THEN /\ pc' = [pc EXCEPT ![t] = "r_list"]
            /\ result' = [result EXCEPT ![t] = NoResult]
            /\ UNCHANGED local
       ELSE Finish(t, NotFound)
    /\ UNCHANGED <<nodes, objs, file_map, lock, deleted>>

\* line 72: self.file_map[file_id]['nodes'] is evaluated once, for the loop
RetrieveList(t) ==
    /\ pc[t] = "r_list"
    /\ IF InFileMap(file_map, call[t].file_id)
       THEN /\ local' = [local EXCEPT
                           ![t].recnodes = file_map[call[t].file_id].nodes,
                           ![t].i = 1]
            /\ pc' = [pc EXCEPT ![t] = "r_loop"]
            /\ UNCHANGED result
       ELSE Finish(t, Raise("KeyError"))
    /\ UNCHANGED <<nodes, objs, file_map, lock, call, deleted, ncalls>>

\* lines 73-75: what one iteration reads for node_id: None when no node of
\* that id is registered, else that node's get_file(file_id)
ReadReplica(ns, node_id, file_id) ==
    IF Lookup(ns, node_id) = 0 THEN None
    ELSE Node_get_file(objs[Lookup(ns, node_id)].files, file_id)

\* lines 72-80: one iteration of the loop, or the end of the loop
RetrieveLoop(t) ==
    /\ pc[t] = "r_loop"
    /\ IF local[t].i > Len(local[t].recnodes)
       THEN Finish(t, Unretrievable)
       ELSE LET data == ReadReplica(nodes, local[t].recnodes[local[t].i],
                                    call[t].file_id)
            IN  IF Truthy(data)
                THEN Finish(t, Return(data, None))
                ELSE /\ local' = [local EXCEPT ![t].i = @ + 1]
                     /\ UNCHANGED <<pc, result>>
    /\ UNCHANGED <<nodes, objs, file_map, lock, call, deleted, ncalls>>

\* ------------------------------------------------------------ delete_file
\* lines 83-85: the presence check
DeleteCall(t, file_id) ==
    /\ ncalls < MaxCalls
    /\ Enter(t, [NoCall EXCEPT !.op = "delete_file", !.file_id = file_id])
    /\ ncalls' = ncalls + 1
    /\ IF InFileMap(file_map, file_id)
       THEN /\ pc' = [pc EXCEPT ![t] = "d_list"]
            /\ result' = [result EXCEPT ![t] = NoResult]
            /\ UNCHANGED local
       ELSE Finish(t, Return(False, "not found"))
    /\ UNCHANGED <<nodes, objs, file_map, lock, deleted>>

\* line 87: self.file_map[file_id]['nodes'] is evaluated once, for the loop
DeleteList(t) ==
    /\ pc[t] = "d_list"
    /\ IF InFileMap(file_map, call[t].file_id)
       THEN /\ local' = [local EXCEPT
                           ![t].recnodes = file_map[call[t].file_id].nodes,
                           ![t].i = 1]
            /\ pc' = [pc EXCEPT ![t] = "d_loop"]
            /\ UNCHANGED result
       ELSE Finish(t, Raise("KeyError"))
    /\ UNCHANGED <<nodes, objs, file_map, lock, call, deleted, ncalls>>

\* lines 88-90: one iteration: the first registered node of that id, if
\* any, drops the payload
DeleteLoop(t) ==
    /\ pc[t] = "d_loop"
    /\ local[t].i <= Len(local[t].recnodes)
    /\ LET o == Lookup(nodes, local[t].recnodes[local[t].i])
       IN  IF o = 0 THEN UNCHANGED objs
           ELSE objs' = [objs EXCEPT ![o].files =
                           Node_delete_file(@, call[t].file_id)]
    /\ local' = [local EXCEPT ![t].i = @ + 1]
    /\ UNCHANGED <<nodes, file_map, lock, pc, call, result, deleted, ncalls>>

\* line 92: the loop is over, the thread takes self.lock
DeleteAcquire(t) ==
    /\ pc[t] = "d_loop"
    /\ local[t].i > Len(local[t].recnodes)
    /\ LockFree(lock)
    /\ lock' = t
    /\ pc' = [pc EXCEPT ![t] = "d_remove"]
    /\ UNCHANGED <<nodes, objs, file_map, call, local, result, deleted, ncalls>>

\* lines 93-95: del self.file_map[file_id] (KeyError when the record is
\* gone); the lock is released on both paths
DeleteRemove(t) ==
    /\ pc[t] = "d_remove"
    /\ lock' = 0
    /\ IF InFileMap(file_map, call[t].file_id)
       THEN /\ file_map' = DictDel(file_map, call[t].file_id)
            /\ deleted' = deleted \cup {call[t].file_id}
            /\ Finish(t, Return(True, "deleted"))
       ELSE /\ UNCHANGED <<file_map, deleted>>
            /\ Finish(t, Raise("KeyError"))
    /\ UNCHANGED <<nodes, objs, call, ncalls>>

\* ----------------------------------------------------------- specification
\* a step of thread t, its calls made with these node ids and payloads
StepOn(t, node_ids, payloads) ==
    \/ \E node_id \in node_ids : AddNodeCall(t, node_id)
    \/ AddNodeAcquire(t)
    \/ AddNodeAppend(t)
    \/ \E node_id \in node_ids : RemoveNodeCall(t, node_id)
    \/ RemoveNodeAcquire(t)
    \/ RemoveNodeFilter(t)
    \/ \E filename \in Filenames, data \in payloads : StoreCall(t, filename, data)
    \/ StoreSample(t)
    \/ StoreWrite(t)
    \/ StoreAcquire(t)
    \/ StoreInsert(t)
    \/ StoreLog(t)
    \/ \E data \in payloads : RetrieveCall(t, hash_file(data))
    \/ RetrieveList(t)
    \/ RetrieveLoop(t)
    \/ \E data \in payloads : DeleteCall(t, hash_file(data))
    \/ DeleteList(t)
    \/ DeleteLoop(t)
    \/ DeleteAcquire(t)
    \/ DeleteRemove(t)

\* a step of thread t
Step(t) == StepOn(t, NodeIds, Payloads)

\* request threads run concurrently
Next == \E t \in Threads : Step(t)

Spec == Init /\ [][Next]_vars

\* one client: every call returns before the next one is made
SeqNext == Step(1)

SeqSpec == Init /\ [][SeqNext]_vars

\* ------------------------------------------------------------ properties
\* thread t has returned from (or raised out of) a call of op
Finished(t, op) == pc[t] = "idle" /\ call[t].op = op

\* what the caller of a call gets: the value returned or the exception
\* raised; the log line is not part of it
Observed(r) == [kind |-> r.kind, value |-> r.value]

\* the payload a file id was computed from
PayloadOf(file_id) == CHOOSE d \in Payloads : hash_file(d) = file_id

\* the objects of the registered nodes
Registered == { nodes[i] : i \in 1..Len(nodes) }

\* thread t makes a call in this step (every call but add_node is counted)
Calls(t, op) == pc[t] = "idle" /\ ncalls' = ncalls + 1 /\ call'[t].op = op

\* C1: a store_file of a payload whose record is in the directory returns
\* the payload's ContentID (the id every returning store_file of that
\* payload returns) in that one step, and writes nothing: every node's
\* files, the registry and the directory are the same before and after,
\* also when nodes of the record have left the registry.
C1_StoreIdempotent ==
    [][\A t \in Threads :
         /\ (Finished(t, "store_file") /\ result[t].kind = "return")
              => result[t].value = hash_file(call[t].data)
         /\ \A d \in Payloads :
              (Calls(t, "store_file") /\ call'[t].data = d
                 /\ hash_file(d) \in DOMAIN file_map)
              => /\ pc'[t] = "idle"
                 /\ result'[t] = Return(hash_file(d), "exists")
                 /\ objs' = objs /\ nodes' = nodes /\ file_map' = file_map
      ]_vars

\* C1 witness: a store_file took the short-circuit while a node listed in
\* the record was no longer registered
C1_Witness ==
    \E t \in Threads :
        /\ Finished(t, "store_file")
        /\ result[t] = Return(call[t].file_id, "exists")
        /\ call[t].file_id \in DOMAIN file_map
        /\ \E i \in 1..Len(file_map[call[t].file_id].nodes) :
              Lookup(nodes, file_map[call[t].file_id].nodes[i]) = 0

\* C2: a retrieve_file(id) that ran to its end on an id with a record,
\* while a registered node listed in the record held the payload under id,
\* returned the payload that was stored.
C2_RoundTrip ==
    \A t \in Threads :
        (/\ Finished(t, "retrieve_file")
         /\ call[t].file_id \in DOMAIN file_map
         /\ \E i \in 1..Len(file_map[call[t].file_id].nodes) :
               LET o == Lookup(nodes, file_map[call[t].file_id].nodes[i])
               IN  o # 0 /\ call[t].file_id \in DOMAIN objs[o].files)
        => Observed(result[t]) = Observed(Return(PayloadOf(call[t].file_id), None))

\* thread t is in store_file past the presence check, its placement made
Placing(t) == pc[t] \in {"s_write", "s_insert"}

\* C3: two store_file calls of the same content are never both past the
\* presence check with their placement made.
C3_OnePlacement ==
    \A t1, t2 \in Threads :
        (t1 # t2 /\ Placing(t1) /\ Placing(t2))
        => call[t1].file_id # call[t2].file_id

C5_DistinctFailures ==
    \A t \in Threads :
        (/\ Finished(t, "retrieve_file")
         /\ result[t] = Unretrievable
         /\ call[t].file_id \in DOMAIN file_map
         /\ \A i \in 1..Len(file_map[call[t].file_id].nodes) :
               Lookup(nodes, file_map[call[t].file_id].nodes[i]) = 0)
        => Observed(result[t]) # Observed(NotFound)

\* C6: a store_file that reaches placement with fewer registered nodes than
\* num_replicas ends there with InsufficientReplicas, and nothing is written.
C6_InsufficientReplicas ==
    [][\A t \in Threads :
         (pc[t] = "s_sample" /\ pc'[t] # "s_sample"
            /\ Len(nodes) < num_replicas)
         => /\ pc'[t] = "idle"
            /\ Observed(result'[t]) = Observed(Raise("InsufficientReplicas"))
            /\ objs' = objs /\ nodes' = nodes /\ file_map' = file_map
      ]_vars

\* C8: after a store_file that placed the payload and returned its id, the
\* record of the id lists num_replicas pairwise distinct node ids, each of a
\* registered node that holds the payload under the id.
C8_StorePostState ==
    \A t \in Threads :
        (Finished(t, "store_file") /\ result[t] = Return(call[t].file_id, "stored"))
        => /\ call[t].file_id \in DOMAIN file_map
           /\ LET ids == file_map[call[t].file_id].nodes
              IN  /\ Len(ids) = num_replicas
                  /\ \A i, j \in 1..Len(ids) : i # j => ids[i] # ids[j]
                  /\ \A i \in 1..Len(ids) :
                        /\ Lookup(nodes, ids[i]) # 0
                        /\ Node_get_file(objs[Lookup(nodes, ids[i])].files,
                                         call[t].file_id) = call[t].data

\* C9: a delete_file(id) that found the record returns True, and after it
\* the directory has no record of id and no registered node holds a payload
\* under id.
C9_DeletePostState ==
    \A t \in Threads :
        (Finished(t, "delete_file") /\ result[t] # Return(False, "not found"))
        => /\ result[t] = Return(True, "deleted")
           /\ call[t].file_id \notin DOMAIN file_map
           /\ \A o \in Registered : call[t].file_id \notin DOMAIN objs[o].files

\* C10: every finished call ended with an outcome of the interface: a
\* return, or for store_file the failure of placement; never another
\* exception.
C10_InterfaceOutcomes ==
    \A t \in Threads :
        (pc[t] = "idle" /\ result[t].kind = "raise")
        => (call[t].op = "store_file" /\ result[t].value = "ValueError")

\* the node ids of the registered nodes are pairwise distinct
DistinctIds ==
    \A a, b \in 1..Len(nodes) :
        a # b => objs[nodes[a]].node_id # objs[nodes[b]].node_id

\* no call is in progress
Quiescent == \A t \in Threads : pc[t] = "idle"

\* C11: a record that is in the directory before and after a step is the
\* same record: its filename and node list change only by being removed.
C11_RecordNeverOverwritten ==
    [][\A id \in (DOMAIN file_map) \cap (DOMAIN file_map') :
          file_map'[id] = file_map[id]]_vars

\* C12: in every state, every registered node whose id a record lists
\* holds a payload under the record's id.
C12_RecordNeverPartial ==
    \A id \in DOMAIN file_map :
        \A i \in 1..Len(file_map[id].nodes) :
            LET o == Lookup(nodes, file_map[id].nodes[i])
            IN  o # 0 => id \in DOMAIN objs[o].files

\* C13: a step that puts a record in the directory puts one whose node ids
\* are all ids of nodes registered at that moment.
C13_RecordNamesMembers ==
    [][\A id \in DOMAIN file_map' :
          (id \notin DOMAIN file_map \/ file_map'[id] # file_map[id])
          => \A i \in 1..Len(file_map'[id].nodes) :
                Lookup(nodes, file_map'[id].nodes[i]) # 0]_vars

\* C14: no two registered nodes have the same node id.
C14_UniqueNodeIds == DistinctIds

\* the positions of ns are those of ms, in order, that keep(o) selects
IsFiltered(ns, ms, keep(_)) ==
    \E f \in [1..Len(ns) -> 1..Len(ms)] :
        /\ \A a, b \in 1..Len(ns) : a < b => f[a] < f[b]
        /\ \A a \in 1..Len(ns) : ns[a] = ms[f[a]]
        /\ \A k \in 1..Len(ms) :
              keep(ms[k]) <=> (\E a \in 1..Len(ns) : f[a] = k)

\* C15: the steps of a remove_node(node_id) leave the directory and every
\* node's files as they are; the registry after it is the registry before
\* it without the nodes of that id, the others in their order (so it is
\* unchanged when no node has that id).
C15_RemoveNodeFrame ==
    [][\A t \in Threads :
         /\ (call'[t].op = "remove_node" /\ pc'[t] # pc[t])
              => (file_map' = file_map /\ objs' = objs)
         /\ (pc[t] = "remove_locked" /\ pc'[t] = "idle")
              => /\ IsFiltered(nodes', nodes,
                       LAMBDA o : objs[o].node_id # call[t].node_id)
                 /\ (Lookup(nodes, call[t].node_id) = 0 => nodes' = nodes)
         /\ (call'[t].op = "remove_node" /\ pc'[t] # pc[t]
               /\ pc[t] # "remove_locked") => nodes' = nodes
      ]_vars

\* C15 witness: a remove_node of an id that a record lists has returned;
\* the record is still there
C15_Witness ==
    \E t \in Threads, id \in DOMAIN file_map :
        /\ Finished(t, "remove_node")
        /\ \E i \in 1..Len(file_map[id].nodes) :
              file_map[id].nodes[i] = call[t].node_id
        /\ Lookup(nodes, call[t].node_id) = 0
        /\ nodes # <<>>

\* C16: a retrieve_file that ended at the not-retrievable exit found, for
\* every id the record lists, no registered node or a node without an entry
\* under the file id.
C16_OnlyAbsentSkipped ==
    \A t \in Threads :
        (/\ Finished(t, "retrieve_file")
         /\ result[t] = Unretrievable
         /\ call[t].file_id \in DOMAIN file_map)
        => \A i \in 1..Len(file_map[call[t].file_id].nodes) :
              LET o == Lookup(nodes, file_map[call[t].file_id].nodes[i])
              IN  o = 0 \/ call[t].file_id \notin DOMAIN objs[o].files

\* the node ids of the Node objects ever made are pairwise distinct
NoDuplicateIds ==
    \A a, b \in 1..Len(objs) : a # b => objs[a].node_id # objs[b].node_id

\* C18: at rest, every registered node that holds a payload under an id is
\* listed in the record of that id.  (Stated for registries without
\* duplicate node ids, which are C14's matter.)
C18_NoOrphansAtRest ==
    (Quiescent /\ NoDuplicateIds)
    => \A o \in Registered : \A id \in DOMAIN objs[o].files :
          /\ id \in DOMAIN file_map
          /\ \E i \in 1..Len(file_map[id].nodes) :
                file_map[id].nodes[i] = objs[o].node_id

\* C19: at rest and with every node ever added still registered, every id
\* with a record is retrievable: a listed node holds the payload and the
\* loop of retrieve_file returns it.  (Stated for non-empty payloads and
\* registries without duplicate node ids; the others are C16's and C14's
\* matter.)
C19_RecordsRetrievableAtRest ==
    (Quiescent /\ Len(nodes) = Len(objs) /\ NoDuplicateIds)
    => \A id \in (DOMAIN file_map) \ {hash_file("")} :
          \E i \in 1..Len(file_map[id].nodes) :
              LET data == ReadReplica(nodes, file_map[id].nodes[i], id)
              IN  Truthy(data) /\ data = PayloadOf(id)

\* ------------------------------------------------------------- liveness
\* a step of thread t inside a call
Continue(t) == pc[t] # "idle" /\ Step(t)

\* the concurrent threads, their calls made with one node id and one
\* payload (which node and which bytes does not change who waits for whom)
FairNext == \E t \in Threads : StepOn(t, {"node1"}, {"Hello World"})

\* every thread that is inside a call and can take a step takes one
FairSpec ==
    Init /\ [][FairNext]_vars /\ \A t \in Threads : WF_vars(Continue(t))

\* where a thread holds self.lock
Locked == {"add_locked", "remove_locked", "s_insert", "d_remove"}

\* C17: the lock is held exactly by the one thread that is inside a `with
\* self.lock` block (so it is free again after every block, the ones that
\* end in KeyError included); whenever a call is in progress some thread
\* inside a call can take a step; and every call in progress ends.
C17_NoBlocking ==
    /\ [](\A t \in Threads : (lock = t) <=> (pc[t] \in Locked))
    /\ [](lock \in {0} \cup Threads)
    /\ []((\E t \in Threads : pc[t] # "idle")
            => (\E t \in Threads : ENABLED Continue(t)))
    /\ \A t \in Threads : (pc[t] # "idle") ~> (pc[t] = "idle")

\* C17 witness: a thread waits for the lock that another thread holds
C17_Witness ==
    \E t, u \in Threads :
        /\ t # u
        /\ lock = u
        /\ \/ pc[t] \in {"add_wait", "remove_wait"}
           \/ pc[t] = "s_write" /\ local[t].i > Len(local[t].selected)
           \/ pc[t] = "d_loop" /\ local[t].i > Len(local[t].recnodes)

====
